---------------------------- MODULE Spec2Model ----------------------------
(***************************************************************************)
(* A model of mrjob/tools/spark_submit.py: the command-line adapter that   *)
(* parses a spark-submit style command line, classifies its options into   *)
(* runner options, step options and options forwarded to spark-submit,     *)
(* builds one step and hands it to a runner.                               *)
(*                                                                         *)
(* One run of main() on one command line is one behaviour.  The option     *)
(* tables are those of the source file.  mrjob.options, mrjob.runner,      *)
(* mrjob.step and argparse are not part of that file: what main() needs of *)
(* them is modelled below and is marked as such.                           *)
(***************************************************************************)
EXTENDS Integers, Sequences, FiniteSets, TLC

VARIABLES
    cl_args,       \* the command line handed to main(), a sequence of tokens
    pc,            \* the position of main()
    parser,        \* parser._actions of the parser _make_arg_parser() built
    options,       \* the namespace parse_args() returned
    runner_class,  \* the alias of the runner class _runner_class() returned
    kwargs,        \* the keyword arguments main() assembles for the runner
    step,          \* the step _get_step() built
    printed,       \* the help _print_help() printed
    exit_code,     \* the exit status of the process
    error,         \* how main() failed: a usage error or an exception
    constructed,   \* the keyword arguments of every runner constructed so far
    runs,          \* the number of calls of runner.run()
    named_path,    \* the path the ValueError of _get_step() names
    path,          \* SpecStep: the target path handed to _get_step()
    main_class     \* SpecStep: the options.main_class handed to _get_step()

vars == <<cl_args, pc, parser, options, runner_class, kwargs, step, printed,
          exit_code, error, constructed, runs, named_path, path, main_class>>

(***************************************************************************)
(* Bounds of the model.                                                    *)
(***************************************************************************)
\* the longest command line
MaxArgs == 5
\* the longest target path of SpecStep
MaxPathLen == 5

(***************************************************************************)
(* Python values.  A value carries its type, so that a string, a list and  *)
(* None are never equal.                                                   *)
(***************************************************************************)
None == [t |-> "None"]
Str(s) == [t |-> "str", s |-> s]
Bool(b) == [t |-> "bool", b |-> b]
Lst(l) == [t |-> "list", l |-> l]
Dict(d) == [t |-> "dict", d |-> d]

\* Python's truth value of a value an option can hold
Truthy(v) ==
    CASE v.t = "None" -> FALSE
      [] v.t = "bool" -> v.b
      [] v.t = "str"  -> v.s # ""
      [] v.t = "list" -> v.l # <<>>
      [] v.t = "dict" -> v.d # {}

\* dict.update()
Update(d, e) ==
    [k \in DOMAIN d \cup DOMAIN e |-> IF k \in DOMAIN e THEN e[k] ELSE d[k]]

Range(f) == {f[i] : i \in DOMAIN f}

\* body(value), the value computed once whatever the number of its uses
Let(value, body(_)) == CHOOSE result \in {body(v) : v \in {value}} : TRUE

(***************************************************************************)
(* The characters of the strings of the model: the registered switches and *)
(* the tokens of the command lines.                                        *)
(***************************************************************************)
CharTable ==
       ("--cmdenv" :> <<"-", "-", "c", "m", "d", "e", "n", "v">>)
    @@ ("--driver-class-path" :> <<"-", "-", "d", "r", "i", "v", "e", "r", "-", "c", "l", "a", "s", "s", "-", "p", "a", "t", "h">>)
    @@ ("--driver-cores" :> <<"-", "-", "d", "r", "i", "v", "e", "r", "-", "c", "o", "r", "e", "s">>)
    @@ ("--driver-java-options" :> <<"-", "-", "d", "r", "i", "v", "e", "r", "-", "j", "a", "v", "a", "-", "o", "p", "t", "i", "o", "n", "s">>)
    @@ ("--driver-library-path" :> <<"-", "-", "d", "r", "i", "v", "e", "r", "-", "l", "i", "b", "r", "a", "r", "y", "-", "p", "a", "t", "h">>)
    @@ ("--driver-memory" :> <<"-", "-", "d", "r", "i", "v", "e", "r", "-", "m", "e", "m", "o", "r", "y">>)
    @@ ("--exclude-packages" :> <<"-", "-", "e", "x", "c", "l", "u", "d", "e", "-", "p", "a", "c", "k", "a", "g", "e", "s">>)
    @@ ("--executor-cores" :> <<"-", "-", "e", "x", "e", "c", "u", "t", "o", "r", "-", "c", "o", "r", "e", "s">>)
    @@ ("--executor-memory" :> <<"-", "-", "e", "x", "e", "c", "u", "t", "o", "r", "-", "m", "e", "m", "o", "r", "y">>)
    @@ ("--conf" :> <<"-", "-", "c", "o", "n", "f">>)
    @@ ("--keytab" :> <<"-", "-", "k", "e", "y", "t", "a", "b">>)
    @@ ("--jars" :> <<"-", "-", "j", "a", "r", "s">>)
    @@ ("--class" :> <<"-", "-", "c", "l", "a", "s", "s">>)
    @@ ("--name" :> <<"-", "-", "n", "a", "m", "e">>)
    @@ ("--num-executors" :> <<"-", "-", "n", "u", "m", "-", "e", "x", "e", "c", "u", "t", "o", "r", "s">>)
    @@ ("--packages" :> <<"-", "-", "p", "a", "c", "k", "a", "g", "e", "s">>)
    @@ ("--principal" :> <<"-", "-", "p", "r", "i", "n", "c", "i", "p", "a", "l">>)
    @@ ("--properties-file" :> <<"-", "-", "p", "r", "o", "p", "e", "r", "t", "i", "e", "s", "-", "f", "i", "l", "e">>)
    @@ ("--proxy-user" :> <<"-", "-", "p", "r", "o", "x", "y", "-", "u", "s", "e", "r">>)
    @@ ("--py-files" :> <<"-", "-", "p", "y", "-", "f", "i", "l", "e", "s">>)
    @@ ("--queue" :> <<"-", "-", "q", "u", "e", "u", "e">>)
    @@ ("--repositories" :> <<"-", "-", "r", "e", "p", "o", "s", "i", "t", "o", "r", "i", "e", "s">>)
    @@ ("--deploy-mode" :> <<"-", "-", "d", "e", "p", "l", "o", "y", "-", "m", "o", "d", "e">>)
    @@ ("--master" :> <<"-", "-", "m", "a", "s", "t", "e", "r">>)
    @@ ("--supervise" :> <<"-", "-", "s", "u", "p", "e", "r", "v", "i", "s", "e">>)
    @@ ("--total-executor-cores" :> <<"-", "-", "t", "o", "t", "a", "l", "-", "e", "x", "e", "c", "u", "t", "o", "r", "-", "c", "o", "r", "e", "s">>)
    @@ ("--archives" :> <<"-", "-", "a", "r", "c", "h", "i", "v", "e", "s">>)
    @@ ("--dirs" :> <<"-", "-", "d", "i", "r", "s">>)
    @@ ("--files" :> <<"-", "-", "f", "i", "l", "e", "s">>)
    @@ ("--spark-master" :> <<"-", "-", "s", "p", "a", "r", "k", "-", "m", "a", "s", "t", "e", "r">>)
    @@ ("--spark-deploy-mode" :> <<"-", "-", "s", "p", "a", "r", "k", "-", "d", "e", "p", "l", "o", "y", "-", "m", "o", "d", "e">>)
    @@ ("--libjars" :> <<"-", "-", "l", "i", "b", "j", "a", "r", "s">>)
    @@ ("--jobconf" :> <<"-", "-", "j", "o", "b", "c", "o", "n", "f">>)
    @@ ("-D" :> <<"-", "D">>)
    @@ ("-r" :> <<"-", "r">>)
    @@ ("--runner" :> <<"-", "-", "r", "u", "n", "n", "e", "r">>)
    @@ ("-h" :> <<"-", "h">>)
    @@ ("--help" :> <<"-", "-", "h", "e", "l", "p">>)
    @@ ("--deprecated" :> <<"-", "-", "d", "e", "p", "r", "e", "c", "a", "t", "e", "d">>)
    @@ ("-q" :> <<"-", "q">>)
    @@ ("--quiet" :> <<"-", "-", "q", "u", "i", "e", "t">>)
    @@ ("-v" :> <<"-", "v">>)
    @@ ("--verbose" :> <<"-", "-", "v", "e", "r", "b", "o", "s", "e">>)
    @@ ("-c" :> <<"-", "c">>)
    @@ ("--conf-path" :> <<"-", "-", "c", "o", "n", "f", "-", "p", "a", "t", "h">>)
    @@ ("--no-conf" :> <<"-", "-", "n", "o", "-", "c", "o", "n", "f">>)
    @@ ("--check-input-paths" :> <<"-", "-", "c", "h", "e", "c", "k", "-", "i", "n", "p", "u", "t", "-", "p", "a", "t", "h", "s">>)
    @@ ("--no-check-input-paths" :> <<"-", "-", "n", "o", "-", "c", "h", "e", "c", "k", "-", "i", "n", "p", "u", "t", "-", "p", "a", "t", "h", "s">>)
    @@ ("-o" :> <<"-", "o">>)
    @@ ("--output-dir" :> <<"-", "-", "o", "u", "t", "p", "u", "t", "-", "d", "i", "r">>)
    @@ ("--hadoop-bin" :> <<"-", "-", "h", "a", "d", "o", "o", "p", "-", "b", "i", "n">>)
    @@ ("--region" :> <<"-", "-", "r", "e", "g", "i", "o", "n">>)
    @@ ("--driver-mem" :> <<"-", "-", "d", "r", "i", "v", "e", "r", "-", "m", "e", "m">>)
    @@ ("--bogus" :> <<"-", "-", "b", "o", "g", "u", "s">>)
    @@ ("emr" :> <<"e", "m", "r">>)
    @@ ("hadoop" :> <<"h", "a", "d", "o", "o", "p">>)
    @@ ("job.py" :> <<"j", "o", "b", ".", "p", "y">>)
    @@ ("App.jar" :> <<"A", "p", "p", ".", "j", "a", "r">>)

Chars(s) == CharTable[s]

\* str.startswith()
StartsWith(cs, prefix) ==
    /\ Len(prefix) <= Len(cs)
    /\ SubSeq(cs, 1, Len(prefix)) = prefix

\* str.endswith()
EndsWith(cs, suffix) ==
    /\ Len(suffix) <= Len(cs)
    /\ SubSeq(cs, Len(cs) - Len(suffix) + 1, Len(cs)) = suffix

\* str.lower() of one character
LowerChar(c) ==
    CASE c = "A" -> "a"
      [] c = "J" -> "j"
      [] c = "P" -> "p"
      [] c = "R" -> "r"
      [] c = "Y" -> "y"
      [] OTHER   -> c

\* str.lower()
Lower(cs) == [i \in 1..Len(cs) |-> LowerChar(cs[i])]

\* s.split('.')[-1]: what follows the last '.', all of s when it holds none
LastDotPart(cs) ==
    LET dots == {i \in 1..Len(cs) : cs[i] = "."}
        last == IF dots = {} THEN 0
                ELSE CHOOSE i \in dots : \A j \in dots : j <= i
    IN  SubSeq(cs, last + 1, Len(cs))

(***************************************************************************)
(* The tables of spark_submit.py.                                          *)
(***************************************************************************)
_SPARK_RUNNERS == {"emr", "hadoop"}

_DEFAULT_RUNNER == "hadoop"

\* option name and switch, in the order of the source
_SPARK_SUBMIT_SWITCHES == <<
    <<"cmdenv", "--cmdenv">>,
    <<"driver_class_path", "--driver-class-path">>,
    <<"driver_cores", "--driver-cores">>,
    <<"driver_java_options", "--driver-java-options">>,
    <<"driver_library_path", "--driver-library-path">>,
    <<"driver_memory", "--driver-memory">>,
    <<"exclude_packages", "--exclude-packages">>,
    <<"executor_cores", "--executor-cores">>,
    <<"executor_memory", "--executor-memory">>,
    <<"jobconf", "--conf">>,
    <<"keytab", "--keytab">>,
    <<"libjars", "--jars">>,
    <<"main_class", "--class">>,
    <<"name", "--name">>,
    <<"num_executors", "--num-executors">>,
    <<"packages", "--packages">>,
    <<"principal", "--principal">>,
    <<"properties_file", "--properties-file">>,
    <<"proxy_user", "--proxy-user">>,
    <<"py_files", "--py-files">>,
    <<"queue_name", "--queue">>,
    <<"repositories", "--repositories">>,
    <<"spark_deploy_mode", "--deploy-mode">>,
    <<"spark_master", "--master">>,
    <<"supervise", "--supervise">>,
    <<"total_executor_cores", "--total-executor-cores">>,
    <<"upload_archives", "--archives">>,
    <<"upload_dirs", "--dirs">>,
    <<"upload_files", "--files">> >>

\* set(_SPARK_SUBMIT_SWITCHES): the option names of the table
SparkSubmitOptNames == {p[1] : p \in Range(_SPARK_SUBMIT_SWITCHES)}

\* _SPARK_SUBMIT_SWITCHES[opt_name]
SwitchOf(opt_name) ==
    (CHOOSE p \in Range(_SPARK_SUBMIT_SWITCHES) : p[1] = opt_name)[2]

\* things that are different about specific spark submit args
_SPARK_SUBMIT_ARG_KWARGS == [supervise |-> [action |-> "store_true"]]

\* not a runner opt or one that's passed straight through to spark
_STEP_OPT_NAMES == {"main_class"}

_SWITCH_ALIASES ==
    (   "--master"      :> "--spark-master")
    @@ ("--deploy-mode" :> "--spark-deploy-mode")
    @@ ("--jars"        :> "--libjars")
    @@ ("--conf"        :> "--jobconf")

\* these options don't make any sense with Spark scripts
_HARD_CODED_OPTS == [check_input_paths |-> Bool(FALSE), output_dir |-> None]

(***************************************************************************)
(* mrjob.options and mrjob.runner, which spark_submit.py imports.  Of the  *)
(* runner options, those that share a name with a spark-submit option, the *)
(* two hard-coded ones and one option only one runner declares, for each   *)
(* runner.  A switch is its option strings and the keyword arguments       *)
(* add_argument() gets.                                                    *)
(***************************************************************************)
Switch(strings, action) == [strings |-> strings, action |-> action]

_RUNNER_OPTS ==
    (   "check_input_paths" :>
            << Switch(<<"--check-input-paths">>, "store_true"),
               Switch(<<"--no-check-input-paths">>, "store_false") >>)
    @@ ("cmdenv"            :> << Switch(<<"--cmdenv">>, "key_value") >>)
    @@ ("hadoop_bin"        :> << Switch(<<"--hadoop-bin">>, "store") >>)
    @@ ("jobconf"           :> << Switch(<<"-D", "--jobconf">>, "key_value") >>)
    @@ ("libjars"           :> << Switch(<<"--libjars">>, "comma_list") >>)
    @@ ("output_dir"        :> << Switch(<<"-o", "--output-dir">>, "store") >>)
    @@ ("py_files"          :> << Switch(<<"--py-files">>, "comma_list") >>)
    @@ ("region"            :> << Switch(<<"--region">>, "store") >>)
    @@ ("spark_deploy_mode" :> << Switch(<<"--spark-deploy-mode">>, "store") >>)
    @@ ("spark_master"      :> << Switch(<<"--spark-master">>, "store") >>)
    @@ ("upload_archives"   :> << Switch(<<"--archives">>, "comma_list") >>)
    @@ ("upload_dirs"       :> << Switch(<<"--dirs">>, "comma_list") >>)
    @@ ("upload_files"      :> << Switch(<<"--files">>, "comma_list") >>)

\* set(_RUNNER_OPTS)
RunnerOptNames == DOMAIN _RUNNER_OPTS

\* runner_class.OPT_NAMES: the EMR runner sets the Spark master itself and
\* declares no spark_master ("Hadoop runner only")
OPT_NAMES(alias) ==
    IF alias = "emr"
    THEN RunnerOptNames \ {"hadoop_bin", "spark_master"}
    ELSE RunnerOptNames \ {"region"}

\* _runner_class(alias): the class is named by its alias
_runner_class(alias) == alias

\* _SPARK_ARG_OPT_NAMES with the step options left in
SparkArgOptNamesWithStepOpts == SparkSubmitOptNames \ RunnerOptNames

\* _SPARK_ARG_OPT_NAMES without the options of _SPARK_SUBMIT_ARG_KWARGS
SparkArgOptNamesWithoutFlags ==
    ((SparkSubmitOptNames \ RunnerOptNames) \ _STEP_OPT_NAMES)
        \ DOMAIN _SPARK_SUBMIT_ARG_KWARGS

\* arguments that are passed straight through to spark-submit
_SPARK_ARG_OPT_NAMES ==
    (SparkSubmitOptNames \ RunnerOptNames) \ _STEP_OPT_NAMES

(***************************************************************************)
(* argparse.  A parser is the sequence of its actions (parser._actions).   *)
(* nargs is "None" (one value), "0" (a flag), "1", "?" or "*".             *)
(***************************************************************************)
Action(option_strings, dest, action, nargs, choices, default) ==
    [option_strings |-> option_strings, dest |-> dest, action |-> action,
     nargs |-> nargs, choices |-> choices, default |-> default]

\* the nargs add_argument() gives an action that names none
NargsOfAction(action) ==
    IF action \in {"store_true", "store_false", "store_const"}
    THEN "0" ELSE "None"

\* the default add_argument() gives an action that names none
DefaultOfAction(action) ==
    CASE action = "store_true"  -> Bool(FALSE)
      [] action = "store_false" -> Bool(TRUE)
      [] OTHER                  -> None

\* the option strings of a parser
OptionStrings(p) == UNION {Range(p[i].option_strings) : i \in 1..Len(p)}

\* parser._option_string_actions[s]
ActionOf(p, s) ==
    p[CHOOSE i \in 1..Len(p) : s \in Range(p[i].option_strings)]

\* the destinations of a parser
Dests(p) == {p[i].dest : i \in 1..Len(p)}

\* _add_basic_args(parser)
_add_basic_args(p) ==
    p \o << Action(<<"-c", "--conf-path">>, "conf_paths", "append", "None",
                   {}, None),
            Action(<<"--no-conf">>, "conf_paths", "store_const", "0",
                   {}, None),
            Action(<<"-q", "--quiet">>, "quiet", "store_true", "0",
                   {}, None),
            Action(<<"-v", "--verbose">>, "verbose", "store_true", "0",
                   {}, None) >>

\* sorted(_RUNNER_OPTS)
SortedRunnerOptNames == <<
    "check_input_paths", "cmdenv", "hadoop_bin", "jobconf", "libjars",
    "output_dir", "py_files", "region", "spark_deploy_mode", "spark_master",
    "upload_archives", "upload_dirs", "upload_files" >>

\* the actions of the switches of one runner option
RunnerActions(opt_name) ==
    [i \in 1..Len(_RUNNER_OPTS[opt_name]) |->
        LET switch == _RUNNER_OPTS[opt_name][i]
        IN  Action(switch.strings, opt_name, switch.action,
                   NargsOfAction(switch.action), {},
                   IF switch.action = "append" THEN Lst(<<>>) ELSE None)]

\* _add_runner_args(parser, opt_names): every switch of every named option
RECURSIVE AddRunnerArgsFrom(_, _, _)
AddRunnerArgsFrom(p, opt_names, i) ==
    IF i > Len(SortedRunnerOptNames) THEN p
    ELSE LET opt_name == SortedRunnerOptNames[i]
         IN  AddRunnerArgsFrom(
                 IF opt_name \in opt_names
                 THEN p \o RunnerActions(opt_name) ELSE p,
                 opt_names, i + 1)

_add_runner_args(p, opt_names) == AddRunnerArgsFrom(p, opt_names, 1)

(***************************************************************************)
(* The parser of spark_submit.py.                                          *)
(***************************************************************************)
\* the keyword arguments of the runner's switch that opt_alias names: the
\* loop over _RUNNER_OPTS[opt_name]['switches'], a later match overriding
RECURSIVE RunnerSwitchAction(_, _, _, _)
RunnerSwitchAction(opt_name, opt_alias, i, action) ==
    IF i > Len(_RUNNER_OPTS[opt_name]) THEN action
    ELSE LET switch == _RUNNER_OPTS[opt_name][i]
         IN  RunnerSwitchAction(opt_name, opt_alias, i + 1,
                 IF opt_alias \in Range(switch.strings)
                 THEN switch.action ELSE action)

\* _add_spark_submit_arg with the destination left to argparse, which names
\* it after the switch
AddSparkSubmitArgNoDest(p, opt_name) ==
    Append(p, Action(<<SwitchOf(opt_name)>>, SwitchOf(opt_name), "store",
                     "None", {}, None))

_add_spark_submit_arg(p, opt_name) ==
    LET opt_string == SwitchOf(opt_name)
        opt_alias == IF opt_string \in DOMAIN _SWITCH_ALIASES
                     THEN _SWITCH_ALIASES[opt_string] ELSE opt_string
        \* if opt_name is a mrjob opt, parse args like a MRJob would
        like_mrjob == IF opt_name \in RunnerOptNames
                      THEN RunnerSwitchAction(opt_name, opt_alias, 1, "store")
                      ELSE "store"
        action == IF opt_name \in DOMAIN _SPARK_SUBMIT_ARG_KWARGS
                  THEN _SPARK_SUBMIT_ARG_KWARGS[opt_name].action
                  ELSE like_mrjob
    IN  Append(p, Action(<<opt_string>>, opt_name, action,
                         NargsOfAction(action), {}, DefaultOfAction(action)))

\* _add_runner_alias_arg(parser)
_add_runner_alias_arg(p) ==
    Append(p, Action(<<"-r", "--runner">>, "runner", "store", "None",
                     _SPARK_RUNNERS, None))

\* _add_help_arg(parser)
_add_help_arg(p) ==
    Append(p, Action(<<"-h", "--help">>, "help", "store_true", "0", {},
                     Bool(FALSE)))

\* _add_deprecated_arg(parser)
_add_deprecated_arg(p) ==
    Append(p, Action(<<"--deprecated">>, "deprecated", "store_true", "0",
                     {}, Bool(FALSE)))

\* a spark-submit option that adds every switch, colliding or not
CollidesNever(opt_name, switch) == FALSE

\* whether the loop of _make_arg_parser skips a spark-submit option: a
\* runner option whose switch has no alias is registered already
CollidesWithRunnerOpt(opt_name, switch) ==
    opt_name \in RunnerOptNames /\ switch \notin DOMAIN _SWITCH_ALIASES

\* the loop over _SPARK_SUBMIT_SWITCHES.items()
RECURSIVE AddSparkSubmitArgsFrom(_, _)
AddSparkSubmitArgsFrom(p, i) ==
    IF i > Len(_SPARK_SUBMIT_SWITCHES) THEN p
    ELSE LET opt_name == _SPARK_SUBMIT_SWITCHES[i][1]
             switch == _SPARK_SUBMIT_SWITCHES[i][2]
         IN  AddSparkSubmitArgsFrom(
                 IF CollidesWithRunnerOpt(opt_name, switch) THEN p
                 ELSE _add_spark_submit_arg(p, opt_name),
                 i + 1)

_make_arg_parser ==
    LET positional == << Action(<<>>, "script_or_jar", "store", "?", {}, None),
                         Action(<<>>, "args", "store", "*", {}, None) >>
        basic == _add_deprecated_arg(_add_help_arg(_add_runner_alias_arg(
                     _add_basic_args(positional))))
        runner_opt_names == RunnerOptNames \ DOMAIN _HARD_CODED_OPTS
    IN  AddSparkSubmitArgsFrom(_add_runner_args(basic, runner_opt_names), 1)

(***************************************************************************)
(* argparse's parse of a token list: which tokens are options, which       *)
(* action each one names, which values it consumes, and where the          *)
(* positional arguments are.  parse_args() and the raw parser of           *)
(* _parse_raw_args() both parse this way, each with its own actions.       *)
(***************************************************************************)
\* a token that starts with '-' is read as an option
IsOptionToken(tok) == Len(Chars(tok)) > 1 /\ Chars(tok)[1] = "-"

\* the registered option string a token names: itself, or the one long
\* option it abbreviates
Resolve(p, tok) ==
    IF tok \in OptionStrings(p) THEN [kind |-> "known", string |-> tok]
    ELSE LET matches == {s \in OptionStrings(p) :
                            /\ StartsWith(Chars(tok), <<"-", "-">>)
                            /\ StartsWith(Chars(s), Chars(tok))}
         IN  CASE matches = {} -> [kind |-> "unknown", string |-> tok]
               [] Cardinality(matches) = 1 ->
                      [kind |-> "known", string |-> CHOOSE s \in matches : TRUE]
               [] OTHER -> [kind |-> "ambiguous", string |-> tok]

\* one call of an action: its option string (None for a positional) and
\* the tokens it consumed
Occurrence(a, option_string, values) ==
    [dest |-> a.dest, option_string |-> option_string, values |-> values,
     action |-> a.action, nargs |-> a.nargs]

\* the last index of the run of positional tokens that starts at i
RECURSIVE EndOfPositionals(_, _)
EndOfPositionals(toks, i) ==
    IF i + 1 <= Len(toks) /\ ~IsOptionToken(toks[i + 1])
    THEN EndOfPositionals(toks, i + 1) ELSE i

ParseFailed(message) == [error |-> message, occ |-> <<>>, extras |-> <<>>]

\* the parse from token i on.  The first run of positional tokens fills
\* both positionals (script_or_jar and args); a later run is left over
RECURSIVE ParseFrom(_, _, _, _, _, _)
ParseFrom(p, toks, i, positionals_left, occ, extras) ==
    IF i > Len(toks)
    THEN [error |-> "",
          occ |-> IF positionals_left
                  THEN Append(occ, Occurrence(p[2], "None", <<>>)) ELSE occ,
          extras |-> extras]
    ELSE IF IsOptionToken(toks[i])
    THEN LET r == Resolve(p, toks[i])
         IN  CASE r.kind = "ambiguous" -> ParseFailed("ambiguous option")
               [] r.kind = "unknown" ->
                      ParseFrom(p, toks, i + 1, positionals_left, occ,
                                Append(extras, toks[i]))
               [] OTHER ->
                      LET a == ActionOf(p, r.string)
                      IN  IF a.nargs = "0"
                          THEN ParseFrom(p, toks, i + 1, positionals_left,
                                   Append(occ, Occurrence(a, r.string, <<>>)),
                                   extras)
                          ELSE IF i + 1 > Len(toks) \/ IsOptionToken(toks[i + 1])
                          THEN ParseFailed("expected one argument")
                          ELSE IF a.choices # {} /\ toks[i + 1] \notin a.choices
                          THEN ParseFailed("invalid choice")
                          ELSE ParseFrom(p, toks, i + 2, positionals_left,
                                   Append(occ, Occurrence(a, r.string,
                                                          <<toks[i + 1]>>)),
                                   extras)
    ELSE LET j == EndOfPositionals(toks, i)
         IN  IF positionals_left
             THEN ParseFrom(p, toks, j + 1, FALSE,
                      occ \o << Occurrence(p[1], "None", <<toks[i]>>),
                                Occurrence(p[2], "None",
                                           SubSeq(toks, i + 1, j)) >>,
                      extras)
             ELSE ParseFrom(p, toks, j + 1, FALSE, occ,
                            extras \o SubSeq(toks, i, j))

\* s.split(sep)
RECURSIVE Split(_, _)
Split(cs, sep) ==
    LET at == {i \in 1..Len(cs) : cs[i] = sep}
    IN  IF at = {} THEN <<cs>>
        ELSE LET first == CHOOSE i \in at : \A j \in at : i <= j
             IN  <<SubSeq(cs, 1, first - 1)>>
                     \o Split(SubSeq(cs, first + 1, Len(cs)), sep)

NonEmpty(cs) == cs # <<>>

\* the value an action stores, given the value its destination holds
ActionValue(o, current) ==
    CASE o.action = "store_true"  -> Bool(TRUE)
      [] o.action = "store_false" -> Bool(FALSE)
      [] o.action = "store_const" -> Lst(<<>>)
      [] o.action = "append" ->
             Lst(Append(IF current.t = "list" THEN current.l ELSE <<>>,
                        o.values[1]))
      [] o.action = "comma_list" ->
             Lst(SelectSeq(Split(Chars(o.values[1]), ","), NonEmpty))
      [] o.action = "key_value" ->
             LET kv == Split(Chars(o.values[1]), "=")
                 old == IF current.t = "dict" THEN current.d ELSE {}
             IN  Dict({e \in old : e[1] # kv[1]}
                      \cup {<<kv[1], SubSeq(Chars(o.values[1]),
                                            Len(kv[1]) + 2,
                                            Len(Chars(o.values[1])))>>})
      [] o.nargs = "*" -> Lst(o.values)
      [] OTHER -> Str(o.values[1])

\* an action that refuses its value: KEY=VALUE without '='
ActionFails(o) ==
    o.action = "key_value" /\ "=" \notin Range(Chars(o.values[1]))

\* the namespace before any action ran: the default of the first action of
\* each destination
Defaults(p) ==
    [dest \in Dests(p) |->
        LET named == {i \in 1..Len(p) : p[i].dest = dest}
        IN  p[CHOOSE i \in named : \A j \in named : i <= j].default]

\* the namespace after the actions of occ[i..] ran
RECURSIVE TakeActions(_, _, _)
TakeActions(ns, occ, i) ==
    IF i > Len(occ) THEN [error |-> "", ns |-> ns]
    ELSE IF ActionFails(occ[i])
    THEN [error |-> "not of the form KEY=VALUE", ns |-> ns]
    ELSE TakeActions(
             [ns EXCEPT ![occ[i].dest] = ActionValue(occ[i], ns[occ[i].dest])],
             occ, i + 1)

\* parser.parse_args(cl_args): the namespace, or the usage error
parse_args(p, toks) ==
    Let(ParseFrom(p, toks, 1, TRUE, <<>>, <<>>), LAMBDA r :
        CASE r.error # "" -> [error |-> r.error, ns |-> <<>>]
          [] r.extras # <<>> ->
                 [error |-> "unrecognized arguments", ns |-> <<>>]
          [] OTHER -> TakeActions(Defaults(p), r.occ, 1))

\* _parse_raw_args(parser, cl_args): (dest, option_string, args) of every
\* action the raw parser takes; its parser has the switches and the nargs
\* of `parser`, one value being a list of one
_parse_raw_args(p, toks) ==
    Let([i \in 1..Len(p) |->
            Action(p[i].option_strings, p[i].dest, "raw",
                   IF p[i].nargs = "None" THEN "1" ELSE p[i].nargs,
                   {}, None)],
        LAMBDA raw_parser :
            Let(ParseFrom(raw_parser, toks, 1, TRUE, <<>>, <<>>), LAMBDA r :
                [error |-> r.error,
                 results |-> [i \in 1..Len(r.occ) |->
                                 <<r.occ[i].dest, r.occ[i].option_string,
                                   r.occ[i].values>>]]))

(***************************************************************************)
(* mrjob.step: the descriptions of the two Spark steps.                    *)
(***************************************************************************)
\* SparkJarStep(args, jar, main_class, spark_args).description()
SparkJarStep(args, jar, mainclass, spark_args) ==
    [type |-> "spark_jar", args |-> args, jar |-> jar,
     main_class |-> mainclass, spark_args |-> spark_args]

\* SparkScriptStep(args, script, spark_args).description()
SparkScriptStep(args, script, spark_args) ==
    [type |-> "spark_script", args |-> args, script |-> script,
     spark_args |-> spark_args]

(***************************************************************************)
(* The functions of spark_submit.py.                                       *)
(***************************************************************************)
\* the loop of _get_spark_args over raw_args[i..]
RECURSIVE SparkArgsFrom(_, _)
SparkArgsFrom(raw_args, i) ==
    IF i > Len(raw_args) THEN <<>>
    ELSE (IF raw_args[i][1] \in _SPARK_ARG_OPT_NAMES
          THEN <<raw_args[i][2]>> \o raw_args[i][3] ELSE <<>>)
             \o SparkArgsFrom(raw_args, i + 1)

\* _get_spark_args that collects the arguments of each option together, as
\* a namespace would hold them
RECURSIVE GroupedFrom(_, _)
GroupedFrom(raw_args, i) ==
    IF i > Len(raw_args) THEN <<>>
    ELSE LET first == \A j \in 1..(i - 1) : raw_args[j][1] # raw_args[i][1]
             same(r) == r[1] = raw_args[i][1]
         IN  (IF first /\ raw_args[i][1] \in _SPARK_ARG_OPT_NAMES
              THEN SparkArgsFrom(SelectSeq(raw_args, same), 1) ELSE <<>>)
                 \o GroupedFrom(raw_args, i + 1)

GetSparkArgsGrouped(p, toks) ==
    Let(_parse_raw_args(p, toks), LAMBDA raw_args :
        [error |-> raw_args.error,
         spark_args |-> GroupedFrom(raw_args.results, 1)])

_get_spark_args(p, toks) ==
    Let(_parse_raw_args(p, toks), LAMBDA raw_args :
        [error |-> raw_args.error,
         spark_args |-> SparkArgsFrom(raw_args.results, 1)])

\* the classification of _get_step: the step of a target path, or the
\* ValueError that names the path
StepOf(args, mainclass, spark_args, script_or_jar) ==
    IF EndsWith(Lower(script_or_jar), <<".", "j", "a", "r">>)
    THEN [error |-> "", path |-> <<>>,
          step |-> SparkJarStep(args, script_or_jar, mainclass, spark_args)]
    ELSE IF StartsWith(LastDotPart(Lower(script_or_jar)), <<"p", "y">>)
    THEN [error |-> "", path |-> <<>>,
          step |-> SparkScriptStep(args, script_or_jar, spark_args)]
    ELSE [error |-> "ValueError", path |-> script_or_jar, step |-> None]

_get_step(opts, p, toks) ==
    Let(_get_spark_args(p, toks), LAMBDA spark_args :
        CASE spark_args.error # "" ->
                 [error |-> "ValueError", path |-> <<>>, step |-> None]
          [] opts.script_or_jar.t # "str" ->
                 [error |-> "AttributeError", path |-> <<>>, step |-> None]
          [] OTHER ->
                 StepOf(opts.args, opts.main_class, spark_args.spark_args,
                        Chars(opts.script_or_jar.s)))

\* _get_runner_opt_kwargs that takes every attribute of the namespace
GetRunnerOptKwargsAll(opts, runner) == opts

_get_runner_opt_kwargs(opts, runner) ==
    [opt_name \in {name \in OPT_NAMES(runner) : name \in DOMAIN opts} |->
        opts[opt_name]]

\* the help of _print_basic_help()
BasicHelp == [help |-> "basic", runner |-> "None", opt_names |-> {}]

\* the help of _print_help_for_runner(runner_class)
HelpForRunner(runner) ==
    [help |-> "runner", runner |-> runner,
     opt_names |-> OPT_NAMES(runner) \ DOMAIN _HARD_CODED_OPTS]

\* _print_help that looks at the runner alone
PrintHelpForAnyRunner(opts, runner) ==
    IF Truthy(opts.runner) THEN HelpForRunner(runner) ELSE BasicHelp

\* _print_help that prints the basic help whatever the runner
PrintHelpBasicOnly(opts, runner) == BasicHelp

_print_help(opts, runner) ==
    IF Truthy(opts.help) /\ Truthy(opts.runner)
    THEN HelpForRunner(runner) ELSE BasicHelp

\* os.devnull
Devnull == "/dev/null"

(***************************************************************************)
(* main(), step by step.                                                   *)
(***************************************************************************)
\* the tokens of the command lines of Spec
Tokens == {"--master", "--class", "-r", "-h", "emr", "job.py", "App.jar",
           "--bogus"}

\* the tokens of the command lines of SpecForward
ForwardTokens == {"--driver-memory", "--driver-mem", "--supervise",
                  "--master", "--class", "-r", "emr", "job.py"}

\* the characters of the target paths of SpecStep
PathChars == {".", "j", "a", "r", "p", "y", "J", "P"}

CommandLines(tokens) == UNION {[1..n -> tokens] : n \in 0..MaxArgs}

\* main() is called with a command line
Started(tokens) ==
    /\ cl_args \in CommandLines(tokens)
    /\ pc = "start"
    /\ parser = <<>>
    /\ options = <<>>
    /\ runner_class = "None"
    /\ kwargs = <<>>
    /\ step = None
    /\ printed = None
    /\ exit_code = -1
    /\ error = ""
    /\ constructed = <<>>
    /\ runs = 0
    /\ named_path = <<>>
    /\ path = <<>>
    /\ main_class = None

Init == Started(Tokens)

InitForward == Started(ForwardTokens)

\* parser = _make_arg_parser(); options = parser.parse_args(cl_args):
\* argparse reports a usage error and exits with status 2
ParseArgs ==
    /\ pc = "start"
    /\ parser' = _make_arg_parser
    /\ \E r \in {parse_args(parser', cl_args)} :
           IF r.error # ""
           THEN /\ error' = "usage"
                /\ exit_code' = 2
                /\ pc' = "exited"
                /\ UNCHANGED options
           ELSE /\ options' = r.ns
                /\ pc' = "parsed"
                /\ UNCHANGED <<error, exit_code>>
    /\ UNCHANGED <<cl_args, runner_class, kwargs, step, printed, constructed,
                   runs, named_path, path, main_class>>

\* runner_class = _runner_class(options.runner or _DEFAULT_RUNNER)
SelectRunner ==
    /\ pc = "parsed"
    /\ runner_class' = _runner_class(IF Truthy(options.runner)
                                     THEN options.runner.s
                                     ELSE _DEFAULT_RUNNER)
    /\ pc' = "selected"
    /\ UNCHANGED <<cl_args, parser, options, kwargs, step, printed, exit_code,
                   error, constructed, runs, named_path, path, main_class>>

\* main() whose help does not end the process
HelpWithoutExit ==
    /\ pc = "selected"
    /\ IF Truthy(options.help) \/ ~Truthy(options.script_or_jar)
       THEN printed' = _print_help(options, runner_class)
       ELSE UNCHANGED printed
    /\ pc' = "logging"
    /\ UNCHANGED <<cl_args, parser, options, runner_class, kwargs, step,
                   exit_code, error, constructed, runs, named_path, path,
                   main_class>>

\* if options.help or not options.script_or_jar: print the help and
\* sys.exit(0); otherwise MRJob.set_up_logging()
HelpOrSetUpLogging ==
    /\ pc = "selected"
    /\ IF Truthy(options.help) \/ ~Truthy(options.script_or_jar)
       THEN /\ printed' = _print_help(options, runner_class)
            /\ exit_code' = 0
            /\ pc' = "exited"
       ELSE /\ pc' = "logging"
            /\ UNCHANGED <<printed, exit_code>>
    /\ UNCHANGED <<cl_args, parser, options, runner_class, kwargs, step,
                   error, constructed, runs, named_path, path, main_class>>

\* kwargs = _get_runner_opt_kwargs(...); kwargs.update(_HARD_CODED_OPTS);
\* kwargs['input_paths'] = [os.devnull]
BuildKwargs ==
    /\ pc = "logging"
    /\ kwargs' = Update(Update(_get_runner_opt_kwargs(options, runner_class),
                               _HARD_CODED_OPTS),
                        [input_paths |-> Lst(<<Devnull>>)])
    /\ pc' = "kwargs"
    /\ UNCHANGED <<cl_args, parser, options, runner_class, step, printed,
                   exit_code, error, constructed, runs, named_path, path,
                   main_class>>

\* step = _get_step(...); kwargs['steps'] = [step.description()]: an
\* exception of _get_step ends main()
BuildStep ==
    /\ pc = "kwargs"
    /\ \E r \in {_get_step(options, parser, cl_args)} :
           IF r.error # ""
           THEN /\ error' = r.error
                /\ named_path' = r.path
                /\ exit_code' = 1
                /\ pc' = "exited"
                /\ UNCHANGED <<step, kwargs>>
           ELSE /\ step' = r.step
                /\ kwargs' = Update(kwargs, [steps |-> Lst(<<r.step>>)])
                /\ pc' = "step"
                /\ UNCHANGED <<error, exit_code, named_path>>
    /\ UNCHANGED <<cl_args, parser, options, runner_class, printed,
                   constructed, runs, path, main_class>>

\* runner = runner_class(**kwargs)
MakeRunner ==
    /\ pc = "step"
    /\ constructed' = Append(constructed, kwargs)
    /\ pc' = "runner"
    /\ UNCHANGED <<cl_args, parser, options, runner_class, kwargs, step,
                   printed, exit_code, error, runs, named_path, path,
                   main_class>>

\* runner.run() returns
RunReturns ==
    /\ pc = "runner"
    /\ runs' = runs + 1
    /\ exit_code' = 0
    /\ pc' = "exited"
    /\ UNCHANGED <<cl_args, parser, options, runner_class, kwargs, step,
                   printed, error, constructed, named_path, path, main_class>>

\* runner.run() raises: the exception leaves main()
RunRaises ==
    /\ pc = "runner"
    /\ runs' = runs + 1
    /\ error' = "run"
    /\ exit_code' = 1
    /\ pc' = "exited"
    /\ UNCHANGED <<cl_args, parser, options, runner_class, kwargs, step,
                   printed, constructed, named_path, path, main_class>>

Next ==
    \/ ParseArgs
    \/ SelectRunner
    \/ HelpOrSetUpLogging
    \/ BuildKwargs
    \/ BuildStep
    \/ MakeRunner
    \/ RunReturns
    \/ RunRaises

\* main() on the command lines over Tokens
Spec == Init /\ [][Next]_vars

\* main() on the command lines over ForwardTokens
SpecForward == InitForward /\ [][Next]_vars

(***************************************************************************)
(* _get_step's classification alone, on every short target path.          *)
(***************************************************************************)
TargetPaths == UNION {[1..n -> PathChars] : n \in 1..MaxPathLen}

InitStep ==
    /\ path \in TargetPaths
    /\ main_class \in {None, Str("Main")}
    /\ pc = "target"
    /\ cl_args = <<>>
    /\ parser = <<>>
    /\ options = <<>>
    /\ runner_class = "None"
    /\ kwargs = <<>>
    /\ step = None
    /\ printed = None
    /\ exit_code = -1
    /\ error = ""
    /\ constructed = <<>>
    /\ runs = 0
    /\ named_path = <<>>

\* the if / elif / else of _get_step
ClassifyTarget ==
    /\ pc = "target"
    /\ \E r \in {StepOf(Lst(<<>>), main_class, <<>>, path)} :
           /\ step' = r.step
           /\ error' = r.error
           /\ named_path' = r.path
    /\ pc' = "classified"
    /\ UNCHANGED <<cl_args, parser, options, runner_class, kwargs, printed,
                   exit_code, constructed, runs, path, main_class>>

NextStep == ClassifyTarget

SpecStep == InitStep /\ [][NextStep]_vars

(***************************************************************************)
(* What the properties below say of a command line, read off the tables    *)
(* alone.                                                                  *)
(***************************************************************************)
NoSwitch == <<"None", "None">>

\* the (option name, switch) of _SPARK_SUBMIT_SWITCHES a token names: the
\* switch itself or an abbreviation of it
NamedSwitch(tok) ==
    LET named == {s \in Range(_SPARK_SUBMIT_SWITCHES) :
                     IsOptionToken(tok) /\ StartsWith(Chars(s[2]), Chars(tok))}
    IN  IF Cardinality(named) = 1 THEN CHOOSE s \in named : TRUE
        ELSE NoSwitch

\* a switch that takes no value
IsFlag(opt_name) ==
    /\ opt_name \in DOMAIN _SPARK_SUBMIT_ARG_KWARGS
    /\ _SPARK_SUBMIT_ARG_KWARGS[opt_name].action = "store_true"

\* every occurrence of a forward-class switch in toks[i..], in the order of
\* the tokens, each followed by the value it consumed; the switch spelled
\* as the user wrote it (written) or as the table spells it
RECURSIVE ForwardedFrom(_, _, _)
ForwardedFrom(toks, i, written) ==
    IF i > Len(toks) THEN <<>>
    ELSE LET named == NamedSwitch(toks[i])
         IN  IF named[1] \in _SPARK_ARG_OPT_NAMES
             THEN IF IsFlag(named[1])
                  THEN <<IF written THEN toks[i] ELSE named[2]>>
                           \o ForwardedFrom(toks, i + 1, written)
                  ELSE <<IF written THEN toks[i] ELSE named[2], toks[i + 1]>>
                           \o ForwardedFrom(toks, i + 2, written)
             ELSE ForwardedFrom(toks, i + 1, written)

RunnerOption(runner) == SparkSubmitOptNames \cap OPT_NAMES(runner)

StepOption == _STEP_OPT_NAMES

ForwardOption == _SPARK_ARG_OPT_NAMES

PairwiseDisjoint(runner) ==
    /\ RunnerOption(runner) \cap StepOption = {}
    /\ RunnerOption(runner) \cap ForwardOption = {}
    /\ StepOption \cap ForwardOption = {}

\* the options of the switch table in no class of the runner
Unclassified(runner) ==
    SparkSubmitOptNames
        \ (RunnerOption(runner) \cup StepOption \cup ForwardOption)

SwitchOccurrences == {i \in 1..Len(cl_args) : NamedSwitch(cl_args[i]) # NoSwitch}

\* the switch at position i is in the spark arguments of the step
Forwarded(i) == NamedSwitch(cl_args[i])[2] \in Range(step.spark_args)

\* the option at position i is in the configuration of the runner
Configured(i) == NamedSwitch(cl_args[i])[1] \in DOMAIN kwargs

RECURSIVE SwitchCount(_, _)
SwitchCount(p, i) ==
    IF i = 0 THEN 0 ELSE SwitchCount(p, i - 1) + Len(p[i].option_strings)

\* no option string is registered twice: there are as many different
\* option strings as registrations
UniqueSwitches(p) ==
    Cardinality(OptionStrings(p)) = SwitchCount(p, Len(p))

NativeSpelling(toks) ==
    [i \in 1..Len(toks) |->
        IF toks[i] \in DOMAIN _SWITCH_ALIASES
        THEN _SWITCH_ALIASES[toks[i]] ELSE toks[i]]

\* C5: the command line with the runner's spelling of its aliased switches
\* is refused if main() refused the command line, and otherwise parses into
\* the options main() parsed: the same values of the same destinations (so
\* the same runner configuration); the two switches of a pair have the same
\* destination, action and arity
C5_AliasEquivalence ==
    /\ pc # "start" /\ NativeSpelling(cl_args) # cl_args =>
           Let(parse_args(parser, NativeSpelling(cl_args)), LAMBDA native :
               IF native.error # ""
               THEN options = <<>> /\ error = "usage"
               ELSE options = native.ns)
    /\ pc = "parsed" =>
           \A switch \in DOMAIN _SWITCH_ALIASES :
               LET adapter == ActionOf(parser, switch)
                   native == ActionOf(parser, _SWITCH_ALIASES[switch])
               IN  /\ adapter.dest = native.dest
                   /\ adapter.action = native.action
                   /\ adapter.nargs = native.nargs

\* C5, a parsed command line that sets the master with --master
C5_AliasUsed ==
    /\ pc = "parsed"
    /\ "--master" \in Range(cl_args)
    /\ options.spark_master = Str("emr")
    /\ NativeSpelling(cl_args) # cl_args

(***************************************************************************)
(* The classification of the target.                                       *)
(***************************************************************************)
\* the path ends in '.jar', in any case
EndsInJar(cs) == EndsWith(Lower(cs), <<".", "j", "a", "r">>)

\* the path has an extension (what follows its last '.') and the extension
\* begins with 'py', in any case
HasScriptExtension(cs) ==
    /\ "." \in Range(cs)
    /\ StartsWith(Lower(LastDotPart(cs)), <<"p", "y">>)

\* C6 as stated: a target that ends in '.jar' gives a jar step with the path
\* and the main class; any other target with an extension that begins with
\* 'py' gives a script step with the path and no main class; every other
\* target gives the error that names it, and no step
C6_ClassifiedByExtension ==
    pc = "classified" =>
        IF EndsInJar(path)
        THEN /\ error = ""
             /\ step = SparkJarStep(Lst(<<>>), path, main_class, <<>>)
        ELSE IF HasScriptExtension(path)
        THEN /\ error = ""
             /\ step = SparkScriptStep(Lst(<<>>), path, <<>>)
             /\ "main_class" \notin DOMAIN step
        ELSE /\ error = "ValueError"
             /\ named_path = path
             /\ step = None

(***************************************************************************)
(* The runs of main().                                                     *)
(***************************************************************************)
\* C7: a runner is constructed at most once and run at most once, and only
\* when the command line was parsed, the runner is one of the two, no help
\* was printed and the step was built; after a usage error, a refused runner
\* alias or a refused target no runner is constructed or run; a run() that
\* fails ends main(), with no second run
C7_SingleShot ==
    /\ Len(constructed) <= 1
    /\ runs <= Len(constructed)
    /\ constructed # <<>> =>
           /\ options # <<>>
           /\ runner_class \in _SPARK_RUNNERS
           /\ printed = None
           /\ step # None
           /\ error \in {"", "run"}
    /\ error \in {"usage", "ValueError", "AttributeError"} =>
           constructed = <<>> /\ runs = 0 /\ pc = "exited"
    /\ printed # None => constructed = <<>> /\ runs = 0
    /\ error = "run" => pc = "exited" /\ runs = 1 /\ ~ENABLED Next

\* C7, a run() that failed
C7_RunFailed ==
    pc = "exited" /\ error = "run" /\ runs = 1 /\ Len(constructed) = 1

\* C8: the configuration a runner is constructed with has no key but the
\* options the runner declares, the hard-coded options, input_paths and
\* steps; check_input_paths is False and output_dir is None; input_paths is
\* the null device alone; steps is the one step built
C8_RunnerConfiguration ==
    \A i \in 1..Len(constructed) :
        LET config == constructed[i]
        IN  /\ DOMAIN config \subseteq
                   OPT_NAMES(runner_class) \cup DOMAIN _HARD_CODED_OPTS
                       \cup {"input_paths", "steps"}
            /\ {"check_input_paths", "output_dir", "input_paths", "steps"}
                   \subseteq DOMAIN config
            /\ config["check_input_paths"] = Bool(FALSE)
            /\ config["output_dir"] = None
            /\ config["input_paths"] = Lst(<<Devnull>>)
            /\ config["steps"] = Lst(<<step>>)

\* C8, a runner constructed with the master of the command line
C8_RunnerConstructed ==
    /\ Len(constructed) = 1
    /\ "spark_master" \in DOMAIN constructed[1]
    /\ constructed[1]["spark_master"] = Str("emr")

\* a command line of well-formed options alone, with no target and no help
\* flag: a runner alias, switches of the table with their values
RECURSIVE OptionsOnlyFrom(_, _)
OptionsOnlyFrom(toks, i) ==
    IF i > Len(toks) THEN TRUE
    ELSE LET named == NamedSwitch(toks[i])
             valued == /\ i + 1 <= Len(toks)
                       /\ ~IsOptionToken(toks[i + 1])
                       /\ OptionsOnlyFrom(toks, i + 2)
         IN  CASE toks[i] = "-r" -> valued /\ toks[i + 1] \in _SPARK_RUNNERS
               [] named # NoSwitch /\ IsFlag(named[1]) ->
                      OptionsOnlyFrom(toks, i + 1)
               [] named # NoSwitch -> valued
               [] OTHER -> FALSE

\* C9: main() on a command line with no target and no help flag, with or
\* without a runner alias, prints the basic help and exits with status 0:
\* no usage error, no runner constructed or run
C9_HelpFallback ==
    pc # "start" /\ OptionsOnlyFrom(cl_args, 1) =>
        /\ error = ""
        /\ constructed = <<>> /\ runs = 0
        /\ pc = "exited" => printed = BasicHelp /\ exit_code = 0
        /\ pc \in {"parsed", "selected", "exited"}

\* C9, main() has exited on a runner alias and a switch, with no target
C9_AliasWithoutTarget ==
    /\ pc = "exited"
    /\ OptionsOnlyFrom(cl_args, 1)
    /\ "-r" \in Range(cl_args)
    /\ "--master" \in Range(cl_args)

\* the runner alias of a command line: the value of its last -r
LastAlias(toks) ==
    toks[1 + CHOOSE i \in 1..Len(toks) :
                 /\ toks[i] = "-r"
                 /\ \A j \in (i + 1)..Len(toks) : toks[j] # "-r"]

\* C10: main() on a parsed command line with the help flag prints the basic
\* help when no runner alias is given and the help of the runner's declared
\* options when one is, and exits with status 0 without constructing a
\* runner, with or without a target
C10_HelpKind ==
    options # <<>> /\ "-h" \in Range(cl_args) =>
        /\ constructed = <<>> /\ runs = 0 /\ error = ""
        /\ pc \in {"parsed", "selected", "exited"}
        /\ pc = "exited" =>
               /\ exit_code = 0
               /\ printed = IF "-r" \in Range(cl_args)
                            THEN HelpForRunner(LastAlias(cl_args))
                            ELSE BasicHelp

\* C10, the help of a runner, printed for a command line with a target
C10_RunnerHelpWithTarget ==
    /\ pc = "exited"
    /\ "-h" \in Range(cl_args)
    /\ options # <<>>
    /\ options.script_or_jar = Str("job.py")
    /\ printed = HelpForRunner("emr")
====
